---- MODULE Spec2Model ----
(***************************************************************************)
(* Model of the Python-NoAdmin installer (src/install.py).                 *)
(*                                                                         *)
(* The shared state is the user's home directory: the install directory,   *)
(* the shell profile files and the current-user PATH registry value.  An   *)
(* installer process runs one operation (install, uninstall or list) per   *)
(* invocation, step by step; every step that touches the file system or    *)
(* the network is one action.                                              *)
(*                                                                         *)
(* File names are sequences of tokens, "/" being the separator, so that    *)
(* str.split("/") and "/".join are computed and not assumed.               *)
(***************************************************************************)
EXTENDS Integers, Sequences, FiniteSets, TLC

\* ------------------------------------------------------------------ bounds
\* Invocations one installer process makes in a behaviour.
MaxRuns == 3
\* Synthetic tarballs of the extraction specification: tokens per member
\* name, members per archive, largest strip_components.
MaxNameLen == 4
MaxMembers == 2
MaxStrip == 2

\* ------------------------------------------------------------ configuration
\* Version strings are kept split on ".".
DEFAULT_VERSION == <<"3", "12", "8">>
AVAILABLE_VERSIONS ==
    {<<"3", "12", "8">>, <<"3", "12", "7">>, <<"3", "11", "9">>,
     <<"3", "11", "8">>, <<"3", "10", "14">>, <<"3", "10", "13">>}

Procs == {1, 2}

Sep == "/"

\* ------------------------------------------------------- platform detection
\* Host identifiers as platform.system().lower() / platform.machine().lower()
\* report them.
Systems == {"linux", "darwin", "windows", "freebsd"}
Machines == {"x86_64", "arm64", "i686", "sparc"}

\* get_platform_info: the canonical os name, or "raise".
OsNameOf(sys) ==
    CASE sys = "darwin" -> "macos"
      [] sys = "windows" -> "windows"
      [] sys = "linux" -> "linux"
      [] OTHER -> "raise"

\* get_platform_info: the canonical architecture, or "raise".
ArchOf(mach) ==
    CASE mach \in {"x86_64", "amd64"} -> "x86_64"
      [] mach \in {"aarch64", "arm64"} -> "aarch64"
      [] mach \in {"i386", "i686"} -> "x86"
      [] OTHER -> "raise"

\* Only the operating system is checked; an unknown architecture passes.
PlatformRaisesOsOnly(sys, mach) == OsNameOf(sys) = "raise"

PlatformRaises(sys, mach) == OsNameOf(sys) = "raise" \/ ArchOf(mach) = "raise"

\* ------------------------------------------------------------ download URLs
\* get_pbs_download_url: the target triple of the archive, or "raise".
PbsTarget(os, arch) ==
    CASE os = "macos" -> <<arch, "apple-darwin">>
      [] os = "linux" -> <<arch, "unknown-linux-gnu">>
      [] OTHER -> <<"raise">>

\* get_windows_embed_url: the architecture suffix of the package, or "raise".
WindowsArchSuffix(arch) ==
    CASE arch = "x86_64" -> "amd64"
      [] arch = "x86" -> "win32"
      [] arch = "aarch64" -> "arm64"
      [] OTHER -> "raise"

\* The URL resolver of the platform's installer raises.
UrlRaises(os, arch) ==
    IF os = "windows" THEN WindowsArchSuffix(arch) = "raise"
    ELSE PbsTarget(os, arch) = <<"raise">>

\* --------------------------------------------------------------- file names
\* str.split(sep): the segments of a string, empty ones included.
RECURSIVE Split(_, _)
Split(name, sep) ==
    IF \A i \in 1..Len(name) : name[i] # sep THEN <<name>>
    ELSE LET k == CHOOSE i \in 1..Len(name) :
                     name[i] = sep /\ \A j \in 1..(i - 1) : name[j] # sep
         IN <<SubSeq(name, 1, k - 1)>>
                \o Split(SubSeq(name, k + 1, Len(name)), sep)

\* sep.join(parts)
RECURSIVE Join(_, _)
Join(parts, sep) ==
    IF Len(parts) = 0 THEN <<>>
    ELSE IF Len(parts) = 1 THEN parts[1]
    ELSE parts[1] \o <<sep>> \o Join(Tail(parts), sep)

\* parts[strip_components:]
DropParts(parts, n) == SubSeq(parts, n + 1, Len(parts))

\* The comparison is off by one.
KeepsMemberOffByOne(name, n) == Len(Split(name, Sep)) >= n

\* Lines 247-248: the member survives the strip.
KeepsMember(name, n) == Len(Split(name, Sep)) > n

\* Line 249: the name the member is written under.
StrippedName(name, n) == Join(DropParts(Split(name, Sep), n), Sep)

\* Writing a file into a directory replaces the file of the same name.
PutFile(files, f) == {g \in files : g.name # f.name} \cup {f}

\* Lines 246-250, one iteration of the loop over tf.getmembers().
ExtractMember(files, m, n) ==
    IF KeepsMember(m.name, n)
    THEN PutFile(files, [name |-> StrippedName(m.name, n), kind |-> m.kind])
    ELSE files

\* Lines 244-252 (and zf.extractall, line 241): the members of ms[1..upto]
\* extracted over the files already there.
RECURSIVE ExtractInto(_, _, _, _)
ExtractInto(files, ms, n, upto) ==
    IF upto = 0 THEN files
    ELSE LET before == ExtractInto(files, ms, n, upto - 1)
         IN IF n > 0 THEN ExtractMember(before, ms[upto], n)
            ELSE PutFile(before, ms[upto])

\* ----------------------------------------------------------------- archives
F(name, kind) == [name |-> name, kind |-> kind]

\* "".join(version.split(".")[:2]) in the name of the ._pth file (lines 283-284).
PthName(version) == <<"python", version[1], version[2], "._pth">>

\* The interpreter at its fixed relative path (lines 300, 346, 532-535).
PythonExe(os) ==
    IF os = "windows" THEN <<"python.exe">> ELSE <<"bin", Sep, "python3">>

\* The package manager's entry point, as the summary names it (lines 581-584).
PipExe(os) ==
    IF os = "windows" THEN <<"Scripts", Sep, "pip.exe">>
    ELSE <<"bin", Sep, "pip3">>

\* What the release hosts can answer with.  An archive is its members in
\* getmembers() order and the number of members that can be read before the
\* archive library raises (all of them for a sound archive).
TarIds == {"tar_full", "tar_nopip", "tar_badexe", "tar_flat", "tar_corrupt"}
ZipIds == {"zip_embed", "zip_plainpth", "zip_badexe", "zip_noexe", "zip_corrupt"}

TarFullMembers ==
    << F(<<"python">>, "data"),
       F(<<"python", Sep, "bin", Sep, "python3">>, "exe_ok"),
       F(<<"python", Sep, "bin", Sep, "pip3">>, "data"),
       F(<<"python", Sep, "lib", Sep, "os.py">>, "data") >>

ArchiveOf(id) ==
    CASE id = "tar_full" ->
           [members |-> TarFullMembers, readable |-> Len(TarFullMembers)]
      [] id = "tar_nopip" ->
           [members |-> << F(<<"python", Sep, "bin", Sep, "python3">>, "exe_noexec"),
                           F(<<"python", Sep, "share", Sep, "man">>, "data") >>,
            readable |-> 2]
      [] id = "tar_badexe" ->
           [members |-> << F(<<"python", Sep, "bin", Sep, "python3">>, "exe_bad") >>,
            readable |-> 1]
      [] id = "tar_flat" ->
           [members |-> << F(<<"README">>, "data"), F(<<"python">>, "data") >>,
            readable |-> 2]
      [] id = "tar_corrupt" ->
           [members |-> TarFullMembers, readable |-> 2]
      [] id = "zip_embed" ->
           [members |-> << F(<<"python.exe">>, "exe_ok"),
                           F(PthName(DEFAULT_VERSION), "pth_commented"),
                           F(<<"python312.zip">>, "data") >>,
            readable |-> 3]
      [] id = "zip_plainpth" ->
           [members |-> << F(<<"python.exe">>, "exe_ok"),
                           F(PthName(DEFAULT_VERSION), "pth_plain"),
                           F(<<"Lib", Sep, "old.py">>, "data") >>,
            readable |-> 3]
      [] id = "zip_badexe" ->
           [members |-> << F(<<"python.exe">>, "exe_bad"),
                           F(PthName(DEFAULT_VERSION), "pth_enabled") >>,
            readable |-> 2]
      [] id = "zip_noexe" ->
           [members |-> << F(<<"README">>, "data") >>, readable |-> 1]
      [] OTHER ->
           [members |-> << F(<<"python.exe">>, "exe_ok") >>, readable |-> 0]

\* The file the installer downloads to (lines 271, 315).
ArchiveFileName(os) ==
    IF os = "windows" THEN <<"python-embed", ".zip">> ELSE <<"python", ".tar.gz">>

\* extract_archive's dispatch on the file name (lines 239-254).
ArchiveFormat(fileName) ==
    CASE fileName[Len(fileName)] = ".zip" -> "zip"
      [] fileName[Len(fileName)] \in {".tar.gz", ".tgz"} -> "tar"
      [] OTHER -> "raise"

\* strip_components as the installers pass it (lines 280, 324).
StripOf(os) == IF os = "windows" THEN 0 ELSE 1

\* What a download of the interpreter can produce for a version: nothing
\* but an HTTP error for a version the host does not publish.
Served(os, version) ==
    IF version \notin AVAILABLE_VERSIONS THEN {}
    ELSE IF os = "windows" THEN ZipIds ELSE TarIds

\* ------------------------------------------------------------- file system
Names(files) == {f.name : f \in files}

KindAt(files, name) ==
    IF name \in Names(files)
    THEN (CHOOSE f \in files : f.name = name).kind
    ELSE "absent"

\* subprocess.run([python_exe, ...]): "missing" and "noexec" raise OSError,
\* "fail" is a non-zero return code.
RunPython(exists, files, os) ==
    LET k == IF exists THEN KindAt(files, PythonExe(os)) ELSE "absent"
    IN CASE k = "absent" -> "missing"
         [] k = "exe_ok" -> "ok"
         [] k = "exe_bad" -> "fail"
         [] OTHER -> "noexec"

\* python -m pip --version (lines 360-364, 394-398).
RunPip(exists, files, os) ==
    LET r == RunPython(exists, files, os)
    IN IF r = "ok" /\ PipExe(os) \notin Names(files) THEN "fail" ELSE r

\* The binaries are left as the archive had them.
ChmodBinSkipped(files) == files

\* Lines 340-344: every file directly under bin/ is made executable.
ChmodBin(files) ==
    {IF Len(Split(f.name, Sep)) = 2 /\ Split(f.name, Sep)[1] = <<"bin">>
        /\ f.kind = "exe_noexec"
     THEN F(f.name, "exe_ok") ELSE f : f \in files}

\* Lines 286-298: "import site" is uncommented, or appended when missing.
PatchPth(files, version) ==
    {IF f.name = PthName(version) /\ f.kind \in {"pth_commented", "pth_plain"}
     THEN F(f.name, "pth_enabled") ELSE f : f \in files}

\* Lines 326-347 and 282-301: the fixups after extraction.
Fixups(files, os, version) ==
    IF os = "windows" THEN PatchPth(files, version) ELSE ChmodBin(files)

\* What a failing shutil.rmtree can leave behind: everything, or one file.
RmtreeLeftovers(files) == {files} \cup {{f} : f \in files}

\* ------------------------------------------------------------ shell profile
Shells == {"/bin/bash", "/usr/bin/zsh", "/usr/bin/fish", "/bin/dash", "unset"}

\* Path(os.environ.get("SHELL", "/bin/bash")).name (lines 462-463).
ShellName(shell) ==
    CASE shell = "/usr/bin/zsh" -> "zsh"
      [] shell = "/usr/bin/fish" -> "fish"
      [] shell = "/bin/dash" -> "dash"
      [] OTHER -> "bash"

ProfileFiles == {".zshrc", "config.fish", ".bash_profile", ".bashrc", ".profile"}

\* Lines 465-474: the profile file of the shell.
ProfileOf(shellName, bashProfileExists) ==
    CASE shellName = "zsh" -> ".zshrc"
      [] shellName = "fish" -> "config.fish"
      [] shellName = "bash" ->
           IF bashProfileExists THEN ".bash_profile" ELSE ".bashrc"
      [] OTHER -> ".profile"

Marker == "# Python-NoAdmin PATH"
ExportLine == "export PATH=\"{bin_dir}:$PATH\""
FishLine == "set -gx PATH \"{bin_dir}\" $PATH"
EndLine == "# End Python-NoAdmin"

\* The check looks for the block's last line instead of its first.
MarkerInLooksForEnd(lines) == \E i \in 1..Len(lines) : lines[i] = "# End"

\* marker in content (line 483), the content being its lines.
MarkerIn(lines) == \E i \in 1..Len(lines) : lines[i] = Marker

\* Lines 490-501: the block, line by line.
ConfigBlock(shellName) ==
    IF shellName = "fish" THEN <<"", Marker, FishLine, EndLine>>
    ELSE <<"", Marker, ExportLine, EndLine>>

\* The file is opened for writing, not for appending.
AppendToTruncates(lines, block) == block

\* open(profile, "a"); f.write(config) (lines 503-504).
AppendTo(lines, block) == lines \o block

\* ----------------------------------------------------------- registry PATH
PathSep == ";"
InstallDirEntry == <<"HOME\\.python-nonadmin">>
ScriptsDirEntry == <<"HOME\\.python-nonadmin\\Scripts">>

\* Line 415
PathsToAdd == <<InstallDirEntry, ScriptsDirEntry>>

\* The value is split even when it is empty.
PathPartsAlwaysSplit(current) == Split(current, PathSep)

\* Line 433
PathParts(current) == IF current # <<>> THEN Split(current, PathSep) ELSE <<>>

InParts(e, parts) == \E i \in 1..Len(parts) : parts[i] = e

\* Lines 436-439: path_parts after the first k entries of paths_to_add.
RECURSIVE AddPaths(_, _)
AddPaths(parts, k) ==
    IF k = 0 THEN parts
    ELSE LET before == AddPaths(parts, k - 1)
         IN IF InParts(PathsToAdd[k], before) THEN before
            ELSE <<PathsToAdd[k]>> \o before

\* Lines 434-441: whether the loop set `modified`.
PathModified(parts) == \E k \in 1..Len(PathsToAdd) : ~InParts(PathsToAdd[k], parts)

\* Line 442
NewPath(parts) == Join(AddPaths(parts, Len(PathsToAdd)), PathSep)

\* ---------------------------------------------------------------- the CLI
\* response = input(...).strip().lower() (line 613), on the answers modelled.
Answers == {"y", " Y ", "yes", "YES ", "n", "", "yeah", "no"}
StripLower(answer) ==
    CASE answer \in {"y", " Y "} -> "y"
      [] answer \in {"yes", "YES "} -> "yes"
      [] OTHER -> answer

\* Anything but a refusal counts as consent.
ConfirmedUnlessNo(answer) == StripLower(answer) \notin {"n", "no"}

\* Line 615
Confirmed(answer) == StripLower(answer) \in {"y", "yes"}

Versions == {DEFAULT_VERSION, <<"9", "9", "9">>}

\* =================================================================== state
VARIABLES
    system, machine,        \* the host, as the platform module reports it
    dirExists, dirFiles,    \* the install directory and the files under it
    profiles,               \* profile file -> [exists, lines]
    regSet, regPath,        \* the user PATH registry value: present?, its text
    pc, op, force, version, shell,   \* per process: position, arguments, $SHELL
    tmp,                    \* per process: its temporary directory's content
    got,                    \* per process: the archive this invocation downloaded
    prev,                   \* per process: the files installed when it started
    answer,                 \* per process: the answer to uninstall's prompt
    verified,               \* per process: the version check returned 0 (line 563)
    out,                    \* per process: what the invocation has printed
    status,                 \* per process: how the invocation ended
    runs,                   \* per process: invocations made
    xN, xMembers, xI, xDest, xMade, xPc   \* extraction of a synthetic tarball

hostVars == <<system, machine>>
dirVars == <<dirExists, dirFiles>>
pathVars == <<profiles, regSet, regPath>>
argVars == <<op, force, version, shell, got, prev, answer>>
xVars == <<xN, xMembers, xI, xDest, xMade, xPc>>
mainVars == <<system, machine, dirExists, dirFiles, profiles, regSet, regPath,
              pc, op, force, version, shell, tmp, got, prev, answer, verified,
              out, status, runs>>
vars == <<system, machine, dirExists, dirFiles, profiles, regSet, regPath,
          pc, op, force, version, shell, tmp, got, prev, answer, verified, out,
          status, runs,
          xN, xMembers, xI, xDest, xMade, xPc>>

OsName == OsNameOf(system)
Arch == ArchOf(machine)
IsUnix == OsName \in {"macos", "linux"}

\* Process exit code of an invocation that has ended.
ExitCode(st) == IF st = "ok" THEN 0 ELSE 1

\* The home directories a behaviour starts from: which profile files exist,
\* none of them holding the marker yet.
NoProfile == [exists |-> FALSE, lines |-> <<>>]
UserProfile == [exists |-> TRUE, lines |-> <<"alias ll='ls -l'">>]
Homes ==
    { [f \in ProfileFiles |-> NoProfile],
      [f \in ProfileFiles |-> IF f \in {".bashrc", ".zshrc"} THEN UserProfile ELSE NoProfile],
      [f \in ProfileFiles |-> IF f \in {".bashrc", ".bash_profile"} THEN UserProfile ELSE NoProfile] }

\* The user PATH values a behaviour starts from (absent is regSet = FALSE).
InitialPaths ==
    { <<>>, <<"C:\\tools">>, <<"C:\\tools", PathSep>> \o InstallDirEntry,
      ScriptsDirEntry \o <<PathSep, "C:\\tools">>,
      <<"C:\\tools", PathSep, PathSep>> \o InstallDirEntry
          \o <<PathSep>> \o InstallDirEntry }

ProcInit ==
    /\ pc = [p \in Procs |-> "idle"]
    /\ op = [p \in Procs |-> "none"]
    /\ force = [p \in Procs |-> FALSE]
    /\ version = [p \in Procs |-> DEFAULT_VERSION]
    /\ shell = [p \in Procs |-> "unset"]
    /\ tmp = [p \in Procs |-> "none"]
    /\ got = [p \in Procs |-> "none"]
    /\ prev = [p \in Procs |-> {}]
    /\ answer = [p \in Procs |-> "none"]
    /\ verified = [p \in Procs |-> FALSE]
    /\ out = [p \in Procs |-> {}]
    /\ status = [p \in Procs |-> "idle"]
    /\ runs = [p \in Procs |-> 0]

XIdle ==
    /\ xN = 0
    /\ xMembers = <<>>
    /\ xI = 0
    /\ xDest = {}
    /\ xMade = FALSE
    /\ xPc = "idle"

Init ==
    /\ system \in Systems
    /\ machine \in Machines
    /\ dirExists = FALSE
    /\ dirFiles = {}
    /\ \/ /\ OsNameOf(system) = "windows"
          /\ profiles = [f \in ProfileFiles |-> NoProfile]
          /\ \/ regSet = FALSE /\ regPath = <<>>
             \/ regSet = TRUE /\ regPath \in InitialPaths
       \/ /\ OsNameOf(system) # "windows"
          /\ profiles \in Homes
          /\ regSet = FALSE
          /\ regPath = <<>>
    /\ ProcInit
    /\ XIdle

\* --------------------------------------------------------- leaving a step
\* tempfile.TemporaryDirectory() as a context manager (lines 269, 313, 379):
\* what is left of the directory when the block is left normally ...
TempAfterBlock(t) == "none"
\* The directory is removed by hand at the end of the block only.
TempLeftByRaise(t) == t

\* ... and when an exception leaves it.
TempAfterRaise(t) == "none"

\* The process moves on to the next step.
Goto(p, next) ==
    /\ pc' = [pc EXCEPT ![p] = next]
    /\ UNCHANGED <<status, runs>>

\* The invocation ends.
End(p, st) ==
    /\ pc' = [pc EXCEPT ![p] = "done"]
    /\ status' = [status EXCEPT ![p] = st]
    /\ UNCHANGED runs

Say(p, msgs) == out' = [out EXCEPT ![p] = @ \cup msgs]

\* The handler prints the error and returns instead of exiting with 1.
HandledWithoutExit(p, msgs) ==
    /\ End(p, "ok")
    /\ Say(p, msgs \cup {"error_installation_failed"})

\* Lines 594-596: install's handler around the steps from line 550 on.
Handled(p, msgs) ==
    /\ End(p, "failed")
    /\ Say(p, msgs \cup {"error_installation_failed"})

\* An exception nothing catches: traceback, exit code 1.
Escapes(p) ==
    /\ End(p, "escaped")
    /\ UNCHANGED out

\* Lines 577-592: the summary, and install returns.
Summary(p, msgs) ==
    /\ End(p, "ok")
    /\ Say(p, msgs \cup {"installation_complete"})

\* ------------------------------------------------------------------- main
\* Lines 652-695: argument parsing and dispatch.
Invoke(p) ==
    /\ pc[p] \in {"idle", "done"}
    /\ runs[p] < MaxRuns
    /\ \E o \in {"install", "uninstall", "list"}, f \in BOOLEAN, v \in Versions :
          /\ o # "install" => (f = FALSE /\ v = DEFAULT_VERSION)
          /\ op' = [op EXCEPT ![p] = o]
          /\ force' = [force EXCEPT ![p] = f]
          /\ version' = [version EXCEPT ![p] = v]
          /\ pc' = [pc EXCEPT ![p] = o]
    /\ runs' = [runs EXCEPT ![p] = @ + 1]
    /\ status' = [status EXCEPT ![p] = "running"]
    /\ out' = [out EXCEPT ![p] = {}]
    /\ verified' = [verified EXCEPT ![p] = FALSE]
    /\ tmp' = [tmp EXCEPT ![p] = "none"]
    /\ got' = [got EXCEPT ![p] = "none"]
    /\ prev' = [prev EXCEPT ![p] = IF dirExists THEN Names(dirFiles) ELSE {}]
    /\ answer' = [answer EXCEPT ![p] = "none"]
    /\ shell' = [shell EXCEPT ![p] = "unset"]
    /\ UNCHANGED <<hostVars, dirVars, pathVars, xVars>>

\* Lines 635-645
ListVersions(p) ==
    /\ pc[p] = "list"
    /\ End(p, "ok")
    /\ Say(p, {"versions"})
    /\ UNCHANGED <<hostVars, dirVars, pathVars, argVars, tmp, verified, xVars>>

\* ---------------------------------------------------------------- install
\* Lines 514-548: platform detection (outside the try block), the
\* already-installed early return (which only prints the version of the
\* existing interpreter, lines 537-544).
InstallStart(p) ==
    /\ pc[p] = "install"
    /\ IF PlatformRaises(system, machine)
       THEN Escapes(p)
       ELSE IF dirExists /\ ~force[p]
       THEN End(p, "ok") /\ Say(p, {"already_installed"})
       ELSE Goto(p, "download") /\ Say(p, {"installing"})
    /\ UNCHANGED <<hostVars, dirVars, pathVars, argVars, tmp, verified, xVars>>

\* The existing directory is removed before the download is attempted.
DownloadAfterRemoval(p) ==
    /\ pc[p] = "download"
    /\ dirExists' = FALSE
    /\ dirFiles' = {}
    /\ \/ /\ UrlRaises(OsName, Arch)
          /\ UNCHANGED <<tmp, got>>
          /\ Handled(p, {})
       \/ /\ ~UrlRaises(OsName, Arch)
          /\ \E t \in {"empty", "partial"} :
                tmp' = [tmp EXCEPT ![p] = TempAfterRaise(t)]
          /\ UNCHANGED got
          /\ Handled(p, {"downloading"})
       \/ /\ ~UrlRaises(OsName, Arch)
          /\ \E a \in Served(OsName, version[p]) :
                /\ tmp' = [tmp EXCEPT ![p] = a]
                /\ got' = [got EXCEPT ![p] = a]
          /\ Goto(p, "remove")
          /\ Say(p, {"downloading", "downloaded"})
    /\ UNCHANGED <<hostVars, pathVars, op, force, version, shell,
                   prev, answer, verified, xVars>>

\* Lines 267-273 and 311-317: the URL, the temporary directory, the download
\* (lines 192-230), which ends in an HTTP error, a transport error that may
\* leave a partial file, or the archive.
Download(p) ==
    /\ pc[p] = "download"
    /\ \/ /\ UrlRaises(OsName, Arch)
          /\ UNCHANGED <<tmp, got>>
          /\ Handled(p, {})
       \/ /\ ~UrlRaises(OsName, Arch)
          /\ \E t \in {"empty", "partial"} :
                tmp' = [tmp EXCEPT ![p] = TempAfterRaise(t)]
          /\ UNCHANGED got
          /\ Handled(p, {"downloading"})
       \/ /\ ~UrlRaises(OsName, Arch)
          /\ \E a \in Served(OsName, version[p]) :
                /\ tmp' = [tmp EXCEPT ![p] = a]
                /\ got' = [got EXCEPT ![p] = a]
          /\ Goto(p, "remove")
          /\ Say(p, {"downloading", "downloaded"})
    /\ UNCHANGED <<hostVars, dirVars, pathVars, op, force, version, shell,
                   prev, answer, verified, xVars>>

\* The existing directory is extracted over, not removed.
RemoveExistingSkipped(p) ==
    /\ pc[p] = "remove"
    /\ UNCHANGED <<dirVars, tmp>>
    /\ Say(p, IF dirExists THEN {"removing_existing"} ELSE {})
    /\ Goto(p, "extract")
    /\ UNCHANGED <<hostVars, pathVars, argVars, verified, xVars>>

\* Lines 276-278 and 320-322: an existing install directory is removed; a
\* failing rmtree raises with part of the tree still there.
RemoveExisting(p) ==
    /\ pc[p] = "remove"
    /\ \/ /\ ~dirExists
          /\ UNCHANGED <<dirVars, tmp, out>>
          /\ Goto(p, "extract")
       \/ /\ dirExists
          /\ dirExists' = FALSE
          /\ dirFiles' = {}
          /\ UNCHANGED tmp
          /\ Say(p, {"removing_existing"})
          /\ Goto(p, "extract")
       \/ /\ dirExists
          /\ dirExists' = TRUE
          /\ dirFiles' \in RmtreeLeftovers(dirFiles)
          /\ tmp' = [tmp EXCEPT ![p] = TempAfterRaise(@)]
          /\ Handled(p, {"removing_existing"})
    /\ UNCHANGED <<hostVars, pathVars, argVars, verified, xVars>>

\* Lines 280 and 324 (extract_archive, lines 233-256), then the end of the
\* with block: the destination is created, the readable members are
\* extracted, and an unreadable archive raises.
Extract(p) ==
    /\ pc[p] = "extract"
    /\ LET a == ArchiveOf(tmp[p])
           n == StripOf(OsName)
           before == IF dirExists THEN dirFiles ELSE {}
       IN /\ dirExists' = TRUE
          /\ IF ArchiveFormat(ArchiveFileName(OsName)) = "raise"
             THEN /\ dirFiles' = before
                  /\ tmp' = [tmp EXCEPT ![p] = TempAfterRaise(@)]
                  /\ Handled(p, {"extracting"})
             ELSE /\ dirFiles' = ExtractInto(before, a.members, n, a.readable)
                  /\ IF a.readable < Len(a.members)
                     THEN /\ tmp' = [tmp EXCEPT ![p] = TempAfterRaise(@)]
                          /\ Handled(p, {"extracting"})
                     ELSE /\ tmp' = [tmp EXCEPT ![p] = TempAfterBlock(@)]
                          /\ Goto(p, "fixups")
                          /\ Say(p, {"extracting", "extraction_complete"})
    /\ UNCHANGED <<hostVars, pathVars, argVars, verified, xVars>>

\* Lines 282-301 and 326-347
FixupsStep(p) ==
    /\ pc[p] = "fixups"
    /\ dirFiles' = IF dirExists THEN Fixups(dirFiles, OsName, version[p]) ELSE dirFiles
    /\ Goto(p, "verify")
    /\ UNCHANGED <<hostVars, dirExists, pathVars, argVars, tmp, verified, out, xVars>>

\* The return code of the version check is not looked at.
VerifyIgnoresReturnCode(p) ==
    /\ pc[p] = "verify"
    /\ IF RunPython(dirExists, dirFiles, OsName) \in {"ok", "fail"}
       THEN /\ verified' = [verified EXCEPT ![p] = TRUE]
            /\ Goto(p, "pip_check")
            /\ Say(p, {"python_installed"})
       ELSE /\ UNCHANGED verified
            /\ Handled(p, {})
    /\ UNCHANGED <<hostVars, dirVars, pathVars, argVars, tmp, xVars>>

\* Lines 556-566: the version check of the interpreter just installed.
Verify(p) ==
    /\ pc[p] = "verify"
    /\ IF RunPython(dirExists, dirFiles, OsName) = "ok"
       THEN /\ verified' = [verified EXCEPT ![p] = TRUE]
            /\ Goto(p, "pip_check")
            /\ Say(p, {"python_installed"})
       ELSE /\ UNCHANGED verified
            /\ Handled(p, {})
    /\ UNCHANGED <<hostVars, dirVars, pathVars, argVars, tmp, xVars>>

\* ------------------------------------------------------------ install_pip
\* Lines 357-366 and 376-377: does pip answer a version query already?
PipCheck(p) ==
    /\ pc[p] = "pip_check"
    /\ LET r == RunPip(dirExists, dirFiles, OsName)
       IN CASE r = "ok" -> Goto(p, "pip_upgrade") /\ Say(p, {"checking_pip"})
            [] r = "fail" -> Goto(p, "pip_download") /\ Say(p, {"checking_pip"})
            [] OTHER -> Handled(p, {"checking_pip"})
    /\ UNCHANGED <<hostVars, dirVars, pathVars, argVars, tmp, verified, xVars>>

\* The upgrade is run with check=True: a failed upgrade raises.
PipUpgradeChecked(p) ==
    /\ pc[p] = "pip_upgrade"
    /\ IF RunPython(dirExists, dirFiles, OsName) \in {"missing", "noexec"}
       THEN Handled(p, {})
       ELSE \E upgraded \in BOOLEAN :
               IF upgraded
               THEN /\ out' = [out EXCEPT ![p] =
                                  @ \cup {"pip_already_installed", "pip_upgraded"}]
                    /\ Goto(p, "path")
               ELSE Handled(p, {"pip_already_installed"})
    /\ UNCHANGED <<hostVars, dirVars, pathVars, argVars, tmp, verified, xVars>>

\* Lines 367-374: the best-effort upgrade (its return code is not looked
\* at), after which install_pip returns.
PipUpgrade(p) ==
    /\ pc[p] = "pip_upgrade"
    /\ IF RunPython(dirExists, dirFiles, OsName) \in {"missing", "noexec"}
       THEN Handled(p, {})
       ELSE /\ \E upgraded \in BOOLEAN :
                 out' = [out EXCEPT ![p] =
                            @ \cup {"pip_already_installed"}
                              \cup (IF upgraded THEN {"pip_upgraded"} ELSE {})]
            /\ Goto(p, "path")
    /\ UNCHANGED <<hostVars, dirVars, pathVars, argVars, tmp, verified, xVars>>

\* Lines 379-381: the temporary directory and the download of get-pip.py.
PipDownload(p) ==
    /\ pc[p] = "pip_download"
    /\ \/ /\ \E t \in {"empty", "partial"} :
                tmp' = [tmp EXCEPT ![p] = TempAfterRaise(t)]
          /\ Handled(p, {"installing_pip"})
       \/ /\ tmp' = [tmp EXCEPT ![p] = "get-pip.py"]
          /\ Goto(p, "pip_run")
          /\ Say(p, {"installing_pip"})
    /\ UNCHANGED <<hostVars, dirVars, pathVars, argVars, verified, xVars>>

\* Lines 383-391 and the end of the with block: the bootstrap script runs;
\* a non-zero return code raises; on zero pip is installed, or is not.
PipRun(p) ==
    /\ pc[p] = "pip_run"
    /\ \/ /\ RunPython(dirExists, dirFiles, OsName) \in {"missing", "noexec"}
          /\ UNCHANGED dirVars
          /\ tmp' = [tmp EXCEPT ![p] = TempAfterRaise(@)]
          /\ Handled(p, {})
       \/ /\ RunPython(dirExists, dirFiles, OsName) \notin {"missing", "noexec"}
          /\ UNCHANGED dirVars
          /\ tmp' = [tmp EXCEPT ![p] = TempAfterRaise(@)]
          /\ End(p, "failed")
          /\ Say(p, {"pip_installation_failed", "error_installation_failed"})
       \/ /\ RunPython(dirExists, dirFiles, OsName) = "ok"
          /\ \E installs \in BOOLEAN :
                dirFiles' = IF installs
                            THEN PutFile(dirFiles, F(PipExe(OsName), "data"))
                            ELSE dirFiles
          /\ UNCHANGED dirExists
          /\ tmp' = [tmp EXCEPT ![p] = TempAfterBlock(@)]
          /\ Goto(p, "pip_verify")
          /\ UNCHANGED out
    /\ UNCHANGED <<hostVars, pathVars, argVars, verified, xVars>>

\* Lines 393-403: the version query after the bootstrap; a failure warns.
PipVerify(p) ==
    /\ pc[p] = "pip_verify"
    /\ LET r == RunPip(dirExists, dirFiles, OsName)
       IN CASE r = "ok" -> Goto(p, "path") /\ Say(p, {"pip_installed"})
            [] r = "fail" -> Goto(p, "path") /\ Say(p, {"pip_warning"})
            [] OTHER -> Handled(p, {})
    /\ UNCHANGED <<hostVars, dirVars, pathVars, argVars, tmp, verified, xVars>>

\* ------------------------------------------------------ PATH configuration
\* Lines 410-453 (then the summary, lines 577-592): the registry value is
\* read, the missing entries are put in front and the value is written back
\* if something changed; any failure prints manual instructions.
ConfigurePathWindows(p) ==
    /\ pc[p] = "path"
    /\ OsName = "windows"
    /\ \/ /\ UNCHANGED <<regSet, regPath>>
          /\ Summary(p, {"updating_user_path", "manual_path_instructions"})
       \/ LET current == IF regSet THEN regPath ELSE <<>>
              parts == PathParts(current)
          IN IF PathModified(parts)
             THEN /\ regSet' = TRUE
                  /\ regPath' = NewPath(parts)
                  /\ Summary(p, {"updating_user_path", "added_to_user_path"})
             ELSE /\ UNCHANGED <<regSet, regPath>>
                  /\ Summary(p, {"updating_user_path", "already_in_user_path"})
    /\ UNCHANGED <<hostVars, dirVars, profiles, argVars, tmp, verified, xVars>>

\* The profile file configure_path_unix selects for process p's shell.
Profile(p) ==
    ProfileOf(ShellName(shell[p]), profiles[".bash_profile"].exists)

\* Lines 456-485: $SHELL is read, the profile is selected and, if it
\* exists, read and searched for the marker.  Reading can raise.
PathUnixCheck(p) ==
    /\ pc[p] = "path"
    /\ OsName # "windows"
    /\ \E sh \in Shells :
          LET f == ProfileOf(ShellName(sh), profiles[".bash_profile"].exists)
          IN /\ shell' = [shell EXCEPT ![p] = sh]
             /\ \/ /\ profiles[f].exists
                   /\ Handled(p, {"configuring_shell_profile"})
                \/ /\ profiles[f].exists
                   /\ MarkerIn(profiles[f].lines)
                   /\ Summary(p, {"configuring_shell_profile",
                                  "profile_already_configured"})
                \/ /\ ~(profiles[f].exists /\ MarkerIn(profiles[f].lines))
                   /\ Goto(p, "path_append")
                   /\ Say(p, {"configuring_shell_profile"})
    /\ UNCHANGED <<hostVars, dirVars, pathVars, op, force, version, got, prev,
                   answer, tmp, verified, xVars>>

\* Lines 487-507 (then the summary): the parent directory is made, the block
\* is appended.  Creating or opening the file can raise.
PathUnixAppend(p) ==
    /\ pc[p] = "path_append"
    /\ \/ /\ UNCHANGED profiles
          /\ Handled(p, {})
       \/ /\ profiles' = [profiles EXCEPT ![Profile(p)] =
                [exists |-> TRUE,
                 lines |-> AppendTo(@.lines, ConfigBlock(ShellName(shell[p])))]]
          /\ Summary(p, {"added_to_profile"})
    /\ UNCHANGED <<hostVars, dirVars, regSet, regPath, argVars, tmp, verified, xVars>>

\* -------------------------------------------------------------- uninstall
\* Lines 599-609
UninstallStart(p) ==
    /\ pc[p] = "uninstall"
    /\ IF PlatformRaises(system, machine)
       THEN Escapes(p)
       ELSE IF ~dirExists
       THEN End(p, "ok") /\ Say(p, {"nothing_to_uninstall"})
       ELSE Goto(p, "confirm") /\ Say(p, {"this_will_remove"})
    /\ UNCHANGED <<hostVars, dirVars, pathVars, argVars, tmp, verified, xVars>>

\* Lines 611-617: the prompt and the user's answer.
UninstallConfirm(p) ==
    /\ pc[p] = "confirm"
    /\ \E a \in Answers :
          /\ answer' = [answer EXCEPT ![p] = a]
          /\ IF Confirmed(a)
             THEN Goto(p, "u_remove") /\ UNCHANGED out
             ELSE End(p, "ok") /\ Say(p, {"uninstallation_cancelled"})
    /\ UNCHANGED <<hostVars, dirVars, pathVars, op, force, version, shell, got,
                   prev, tmp, verified, xVars>>

\* Lines 619-632: the install directory is removed recursively; a failing
\* rmtree is not caught.
UninstallRemove(p) ==
    /\ pc[p] = "u_remove"
    /\ \/ /\ dirExists
          /\ dirExists' = FALSE
          /\ dirFiles' = {}
          /\ End(p, "ok")
          /\ Say(p, {"removing_installation", "removed", "uninstallation_complete"})
       \/ /\ dirExists' = dirExists
          /\ dirFiles' \in (IF dirExists THEN RmtreeLeftovers(dirFiles) ELSE {dirFiles})
          /\ End(p, "escaped")
          /\ Say(p, {"removing_installation"})
    /\ UNCHANGED <<hostVars, pathVars, argVars, tmp, verified, xVars>>

\* ---------------------------------------------------------- specification
\* The steps of process p.
Step(p) ==
    \/ Invoke(p)
    \/ ListVersions(p)
    \/ InstallStart(p)
    \/ Download(p)
    \/ RemoveExisting(p)
    \/ Extract(p)
    \/ FixupsStep(p)
    \/ Verify(p)
    \/ PipCheck(p)
    \/ PipUpgrade(p)
    \/ PipDownload(p)
    \/ PipRun(p)
    \/ PipVerify(p)
    \/ ConfigurePathWindows(p)
    \/ PathUnixCheck(p)
    \/ PathUnixAppend(p)
    \/ UninstallStart(p)
    \/ UninstallConfirm(p)
    \/ UninstallRemove(p)

\* One installer process at a time, as the tool is meant to be used.
Next == Step(1)

Spec == Init /\ [][Next]_vars

\* ------------------------------------------- two installers run at once
\* Two terminals of one user on a Linux host without an installation, each
\* about to run `install.py --force` once.
InitConc ==
    /\ system = "linux"
    /\ machine = "x86_64"
    /\ dirExists = FALSE
    /\ dirFiles = {}
    /\ profiles \in Homes
    /\ regSet = FALSE
    /\ regPath = <<>>
    /\ ProcInit
    /\ XIdle

\* Lines 652-695 with --force: process p starts its one install.
StartForced(p) ==
    /\ pc[p] = "idle"
    /\ op' = [op EXCEPT ![p] = "install"]
    /\ force' = [force EXCEPT ![p] = TRUE]
    /\ version' = [version EXCEPT ![p] = DEFAULT_VERSION]
    /\ pc' = [pc EXCEPT ![p] = "install"]
    /\ runs' = [runs EXCEPT ![p] = @ + 1]
    /\ status' = [status EXCEPT ![p] = "running"]
    /\ prev' = [prev EXCEPT ![p] = IF dirExists THEN Names(dirFiles) ELSE {}]
    /\ UNCHANGED <<hostVars, dirVars, pathVars, shell, got, answer, tmp,
                   verified, out, xVars>>

\* The processes share nothing but the file system, and nothing orders their
\* steps.
NextConc ==
    \E p \in Procs :
        \/ StartForced(p)
        \/ InstallStart(p)
        \/ Download(p)
        \/ RemoveExisting(p)
        \/ Extract(p)
        \/ FixupsStep(p)
        \/ Verify(p)
        \/ PipCheck(p)
        \/ PipUpgrade(p)
        \/ PipDownload(p)
        \/ PipRun(p)
        \/ PipVerify(p)
        \/ PathUnixCheck(p)
        \/ PathUnixAppend(p)

SpecConc == InitConc /\ [][NextConc]_vars

\* ------------------------------------------- extraction of a tarball alone
\* Member names of the synthetic tarballs: non-empty, and without a trailing
\* separator (tarfile reports directories without it).
XNames ==
    {n \in UNION {[1..l -> {"a", Sep}] : l \in 1..MaxNameLen} : n[Len(n)] # Sep}

XArchives ==
    UNION {[1..k -> {F(n, "data") : n \in XNames}] : k \in 0..MaxMembers}

\* A quiescent installer on a supported host.
MainIdle ==
    /\ system = "linux"
    /\ machine = "x86_64"
    /\ dirExists = FALSE
    /\ dirFiles = {}
    /\ profiles = [f \in ProfileFiles |-> NoProfile]
    /\ regSet = FALSE
    /\ regPath = <<>>
    /\ ProcInit

InitExtract ==
    /\ MainIdle
    /\ xN \in 0..MaxStrip
    /\ xMembers \in XArchives
    /\ xI = 0
    /\ xDest = {}
    /\ xMade = FALSE
    /\ xPc = "start"

\* Lines 235-243: the destination is created and the archive opened.
XStart ==
    /\ xPc = "start"
    /\ xMade' = TRUE
    /\ xPc' = "loop"
    /\ UNCHANGED <<xN, xMembers, xI, xDest, mainVars>>

\* Lines 251-252: strip_components = 0, whole-archive extraction.
XExtractAll ==
    /\ xPc = "loop"
    /\ xN = 0
    /\ xDest' = ExtractInto(xDest, xMembers, xN, Len(xMembers))
    /\ xI' = Len(xMembers)
    /\ xPc' = "done"
    /\ UNCHANGED <<xN, xMembers, xMade, mainVars>>

\* Lines 246-250: one member of the loop.
XExtractMember ==
    /\ xPc = "loop"
    /\ xN > 0
    /\ xI < Len(xMembers)
    /\ xDest' = ExtractMember(xDest, xMembers[xI + 1], xN)
    /\ xI' = xI + 1
    /\ UNCHANGED <<xN, xMembers, xMade, xPc, mainVars>>

\* Line 256: the loop is over, extract_archive returns.
XFinish ==
    /\ xPc = "loop"
    /\ xN > 0
    /\ xI = Len(xMembers)
    /\ xPc' = "done"
    /\ UNCHANGED <<xN, xMembers, xI, xDest, xMade, mainVars>>

NextExtract == XStart \/ XExtractAll \/ XExtractMember \/ XFinish

SpecExtract == InitExtract /\ [][NextExtract]_vars

\* ================================================================== claims
\* What the claims are stated in: occurrences of a line, prefixes, the
\* interpreter being runnable; none of them uses the operators above that
\* model the code's own tests.
CountOf(lines, l) == Cardinality({i \in 1..Len(lines) : lines[i] = l})

SetPathLines(lines) == CountOf(lines, ExportLine) + CountOf(lines, FishLine)

IsPrefix(a, b) == Len(a) <= Len(b) /\ SubSeq(b, 1, Len(a)) = a

Runnable == dirExists /\ F(PythonExe(OsName), "exe_ok") \in dirFiles

FsVars == <<dirExists, dirFiles, profiles, regSet, regPath>>

\* The profile file the spec assigns to a value of $SHELL.
SelectedProfile(sh) ==
    IF sh = "/usr/bin/zsh" THEN ".zshrc"
    ELSE IF sh = "/usr/bin/fish" THEN "config.fish"
    ELSE IF sh = "/bin/dash" THEN ".profile"
    ELSE IF profiles[".bash_profile"].exists THEN ".bash_profile"
    ELSE ".bashrc"

\* configure_path_unix is running in process 1.
InPathUnix == pc[1] \in {"path", "path_append"} /\ IsUnix

\* ---- C1
\* No profile file ever holds the marker or the set-path line twice.
C1_AtMostOnce ==
    \A f \in ProfileFiles :
        /\ CountOf(profiles[f].lines, Marker) <= 1
        /\ SetPathLines(profiles[f].lines) <= 1

\* A run of configure_path_unix that returns leaves the marker and the
\* set-path line exactly once in the profile file it selected.
C1_OnceAfterRun ==
    (InPathUnix /\ status'[1] = "ok")
        => LET f == SelectedProfile(shell'[1])
           IN /\ CountOf(profiles'[f].lines, Marker) = 1
              /\ SetPathLines(profiles'[f].lines) = 1

\* A run that finds the marker in its profile file writes nothing.
C1_LaterRunsWriteNothing ==
    (InPathUnix /\ pc'[1] # pc[1]
        /\ CountOf(profiles[SelectedProfile(shell'[1])].lines, Marker) >= 1)
        => /\ profiles' = profiles
           /\ pc'[1] # "path_append"

\* C1: the Unix PATH configurator is idempotent per profile file.  Over any
\* sequence of installs, forced reinstalls and uninstalls, every profile file
\* holds the marker comment and the set-path line at most once; after every
\* configure_path_unix run that returns they occur exactly once in the file
\* the run selected; and a run on a file that already has the marker writes
\* nothing.  (A run that raises an I/O error writes nothing either.)
C1_PathUnixIdempotent ==
    /\ []C1_AtMostOnce
    /\ [][C1_OnceAfterRun /\ C1_LaterRunsWriteNothing]_vars

\* A second run has found the block of an earlier one, after an uninstall or
\* a forced reinstall in between.
C1_Witness ==
    /\ pc[1] = "done"
    /\ status[1] = "ok"
    /\ runs[1] >= 2
    /\ "profile_already_configured" \in out[1]
    /\ CountOf(profiles[SelectedProfile(shell[1])].lines, Marker) = 1

\* ---- C2
\* C2 as claimed: every install invocation that exits with code 0 leaves a
\* runnable interpreter at the fixed relative path.
C2_ExitZeroMeansRunnable ==
    (pc[1] = "done" /\ op[1] = "install" /\ ExitCode(status[1]) = 0) => Runnable

\* C2, amended: every install invocation that exits with code 0 without
\* taking the already-installed early return leaves a runnable interpreter
\* at the fixed relative path, one that passed this invocation's version
\* check.
C2_InstalledMeansRunnable ==
    (pc[1] = "done" /\ op[1] = "install" /\ ExitCode(status[1]) = 0
        /\ "already_installed" \notin out[1])
        => (Runnable /\ verified[1] /\ "installation_complete" \in out[1])

\* A forced reinstall that went through to the summary.
C2_Witness ==
    /\ pc[1] = "done"
    /\ op[1] = "install"
    /\ status[1] = "ok"
    /\ runs[1] >= 2
    /\ force[1]
    /\ "installation_complete" \in out[1]
    /\ Runnable

\* ---- C3
PipAndPathSteps ==
    {"pip_check", "pip_upgrade", "pip_download", "pip_run", "pip_verify",
     "path", "path_append"}

PipAndPathOutput ==
    {"checking_pip", "installing_pip", "pip_already_installed",
     "updating_user_path", "configuring_shell_profile", "added_to_profile",
     "added_to_user_path", "installation_complete"}

\* The pip and PATH steps are only ever reached, and their output only ever
\* printed, after this invocation's version check returned 0.
C3_OnlyAfterVerification ==
    /\ pc[1] \in PipAndPathSteps => ("python_installed" \in out[1] /\ verified[1])
    /\ out[1] \cap PipAndPathOutput # {} => "python_installed" \in out[1]

\* A version check on an absent or failing interpreter ends the invocation
\* with exit code 1, the file system as it was.
C3_FailedCheckAborts ==
    (pc[1] = "verify" /\ pc'[1] # "verify" /\ ~Runnable)
        => /\ pc'[1] = "done"
           /\ ExitCode(status'[1]) = 1
           /\ "error_installation_failed" \in out'[1]
           /\ FsVars' = FsVars

\* C3: within one install invocation the pip bootstrap and the PATH
\* configuration are reached only after the version check of the extracted
\* interpreter succeeded in that invocation; when the interpreter is absent
\* or the check fails, the invocation aborts with exit code 1 and performs
\* neither.
C3_VerifyBeforePipAndPath ==
    /\ []C3_OnlyAfterVerification
    /\ [][C3_FailedCheckAborts]_vars

\* An invocation whose extraction completed and whose version check failed.
C3_Witness ==
    /\ pc[1] = "done"
    /\ status[1] = "failed"
    /\ "extraction_complete" \in out[1]
    /\ "python_installed" \notin out[1]
    /\ ~Runnable

\* ---- C4
\* C4 as claimed: every install invocation that ends in a fatal error has
\* been through install's handler: the error message is printed, the exit
\* code is 1 and no exception escapes.
C4_FatalErrorsAreHandled ==
    (pc[1] = "done" /\ op[1] = "install" /\ status[1] # "ok")
        => /\ status[1] = "failed"
           /\ "error_installation_failed" \in out[1]

\* ---- C5
\* The steps inside a with tempfile.TemporaryDirectory() block.
TempSteps == {"remove", "extract", "pip_run"}

\* C5: a temporary download directory exists only while its process is
\* inside the block that created it; once install_unix, install_windows or
\* install_pip has been left, by success or by any failure, the directory is
\* gone, so verification, pip check and PATH configuration never run while a
\* downloaded archive exists.
C5_TempDirsAreScoped ==
    \A p \in Procs : pc[p] \notin TempSteps => tmp[p] = "none"

\* An invocation that failed between the download and the end of the
\* extraction, its temporary directory gone.
C5_Witness ==
    /\ pc[1] = "done"
    /\ status[1] = "failed"
    /\ "downloaded" \in out[1]
    /\ "extraction_complete" \notin out[1]
    /\ tmp[1] = "none"

\* ---- C6
\* The n-th separator of a name, and what follows it.
NthSep(name, n) ==
    CHOOSE i \in 1..Len(name) :
        /\ name[i] = Sep
        /\ Cardinality({j \in 1..i : name[j] = Sep}) = n

SepCount(name) == Cardinality({i \in 1..Len(name) : name[i] = Sep})

AfterNthSep(name, n) ==
    IF n = 0 THEN name ELSE SubSeq(name, NthSep(name, n) + 1, Len(name))

\* The names an archive's members are to be found under once extracted with
\* n leading segments dropped.
ExpectedNames(members, n) ==
    {AfterNthSep(members[i].name, n) :
        i \in {j \in 1..Len(members) : SepCount(members[j].name) >= n}}

ExpectedOf(id) == ExpectedNames(ArchiveOf(id).members, IF IsUnix THEN 1 ELSE 0)

ForcedReinstall ==
    /\ op[1] = "install"
    /\ force[1]
    /\ "removing_existing" \in out[1]
    /\ got[1] # "none"

C6_RemovedBeforeExtraction == pc[1] = "extract" => ~dirExists

\* ... a completed extraction leaves exactly the archive's members ...
C6_ExactAfterExtraction ==
    (pc[1] = "extract" /\ pc'[1] = "fixups")
        => (dirExists' /\ Names(dirFiles') = ExpectedOf(got[1]))

\* ... and from then on the invocation only adds pip's entry point to them.
C6_NothingOldSurvives ==
    (op[1] = "install" /\ "extraction_complete" \in out[1])
        => /\ ExpectedOf(got[1]) \subseteq Names(dirFiles)
           /\ Names(dirFiles) \subseteq ExpectedOf(got[1]) \cup {PipExe(OsName)}
           /\ (prev[1] \ (ExpectedOf(got[1]) \cup {PipExe(OsName)}))
                  \cap Names(dirFiles) = {}

YesAnswers == {"y", " Y ", "yes", "YES "}

InUninstall == op[1] = "uninstall" /\ pc[1] \in {"uninstall", "confirm", "u_remove"}

\* The removal step is reached only on a confirmed prompt about an existing
\* install directory.
C7_RemovalNeedsConfirmation ==
    pc[1] = "u_remove" => (answer[1] \in YesAnswers /\ "this_will_remove" \in out[1])

C7_UninstallSteps ==
    InUninstall =>
        /\ <<profiles, regSet, regPath>>' = <<profiles, regSet, regPath>>
        /\ <<dirExists, dirFiles>>' # <<dirExists, dirFiles>>
              => (pc[1] = "u_remove" /\ dirExists /\ answer[1] \in YesAnswers)
        /\ (pc[1] = "uninstall" /\ pc'[1] # pc[1] /\ ~dirExists
              /\ status'[1] = "ok")
              => /\ pc'[1] = "done"
                 /\ "nothing_to_uninstall" \in out'[1]
                 /\ "this_will_remove" \notin out'[1]
        /\ (pc[1] = "confirm" /\ pc'[1] # pc[1])
              => (pc'[1] = "u_remove" <=> answer'[1] \in YesAnswers)
        /\ (pc[1] = "u_remove" /\ status'[1] = "ok")
              => (~dirExists' /\ dirFiles' = {})

\* C7: uninstall changes the file system only when the install directory
\* exists and the answer to the prompt, trimmed and lower-cased, is y or yes.
\* With the directory absent it reports that there is nothing to uninstall
\* without prompting; on any other answer it changes nothing; on a confirmed
\* prompt it removes the install directory recursively and touches nothing
\* else (profile files and registry PATH stay as they are).
C7_UninstallOnlyOnConfirmation ==
    /\ []C7_RemovalNeedsConfirmation
    /\ [][C7_UninstallSteps]_vars

\* A confirmed uninstall, answered " Y ", has removed a populated directory.
C7_Witness ==
    /\ pc[1] = "done"
    /\ op[1] = "uninstall"
    /\ status[1] = "ok"
    /\ answer[1] = " Y "
    /\ prev[1] # {}
    /\ ~dirExists

\* ---- C8
\* The members the loop has been through.
XSeen == {xMembers[i] : i \in 1..xI}

\* Slash-separated segments of a name: one more than its separators.
Segments(name) == SepCount(name) + 1

\* C8: in a tar extraction with strip_components = N > 0 the destination
\* holds, of the members gone through, exactly those with at least N + 1
\* slash-separated segments, each under its name without the first N
\* segments; the others are dropped without an error, so an archive whose
\* members all have exactly N segments ends with an existing, empty
\* destination.
C8_StripComponents ==
    xN > 0 =>
        /\ Names(xDest) =
              {AfterNthSep(m.name, xN) : m \in {k \in XSeen : Segments(k.name) >= xN + 1}}
        /\ xPc = "loop" => xMade
        /\ (xPc = "done" /\ \A i \in 1..Len(xMembers) : Segments(xMembers[i].name) = xN)
              => (xMade /\ xI = Len(xMembers) /\ xDest = {})

\* An extraction with N = 2 has ended, one member written under its stripped
\* name and one member of exactly two segments dropped.
C8_Witness ==
    /\ xPc = "done"
    /\ xN = 2
    /\ \E i, j \in 1..Len(xMembers) :
          /\ Segments(xMembers[i].name) = 2
          /\ Segments(xMembers[j].name) = 3
          /\ Names(xDest) = {AfterNthSep(xMembers[j].name, 2)}

\* ---- C9
\* C9 as claimed: an install invocation that has reached the PATH
\* configuration ends with the summary and exit code 0, whatever happens to
\* the configurator.
C9_PathFailureIsNotFatal ==
    (pc[1] = "done" /\ op[1] = "install"
        /\ out[1] \cap {"updating_user_path", "configuring_shell_profile"} # {})
        => /\ ExitCode(status[1]) = 0
           /\ "installation_complete" \in out[1]

\* ---- C10
\* Every profile file keeps its content as a prefix, and only the file
\* selected for the shell of the running configurator is created or written.
C10_ProfileSteps ==
    \A f \in ProfileFiles :
        /\ IsPrefix(profiles[f].lines, profiles'[f].lines)
        /\ profiles[f].exists => profiles'[f].exists
        /\ profiles'[f] # profiles[f]
              => (pc[1] = "path_append" /\ IsUnix /\ f = SelectedProfile(shell[1]))

\* C10: the Unix PATH configurator only ever appends: in every step the
\* previous content of each profile file is a prefix of its new content, and
\* no profile file but the one selected for the current shell is created or
\* modified.
C10_ProfileAppendOnly == [][C10_ProfileSteps]_vars

\* The block has been appended after the user's own line.
C10_Witness ==
    /\ pc[1] = "done"
    /\ "added_to_profile" \in out[1]
    /\ LET f == SelectedProfile(shell[1])
       IN /\ Len(profiles[f].lines) > Len(ConfigBlock(ShellName(shell[1])))
          /\ profiles[f].lines[1] = UserProfile.lines[1]
          /\ CountOf(profiles[f].lines, Marker) = 1

\* ---- C11
PipSteps == {"pip_check", "pip_upgrade", "pip_download", "pip_run", "pip_verify"}

\* pip answers a version query in the install directory as it is.
PipAnswers == Runnable /\ F(PipExe(OsName), "data") \in dirFiles

\* C11 as claimed: an install that ended in failure inside install_pip (after
\* the pip check began and before the PATH configuration began) ended
\* on the non-zero exit of the bootstrap script (the only place that prints
\* "pip installation failed"), never on a failure to obtain the script.
C11_OnlyBootstrapExitIsFatal ==
    (/\ pc[1] = "done"
     /\ op[1] = "install"
     /\ status[1] = "failed"
     /\ "checking_pip" \in out[1]
     /\ out[1] \cap {"updating_user_path", "configuring_shell_profile"} = {})
        => "pip_installation_failed" \in out[1]

\* The steps of install_pip: the install ends in failure only in the download
\* of the bootstrap script or in its execution; the upgrade, whatever its
\* result, and the final query, whatever its answer, lead on to the PATH
\* configuration; a successful initial query leads to the upgrade.
C11_PipSteps ==
    /\ (pc[1] \in PipSteps /\ pc'[1] = "done")
          => /\ status'[1] = "failed"
             /\ pc[1] \in {"pip_download", "pip_run"}
    /\ (pc[1] = "pip_download" /\ pc'[1] = "done")
          => "pip_installation_failed" \notin out'[1]
    /\ (pc[1] = "pip_run" /\ pc'[1] = "done")
          => "pip_installation_failed" \in out'[1]
    /\ (pc[1] \in {"pip_upgrade", "pip_verify"} /\ pc'[1] # pc[1])
          => (pc'[1] = "path" /\ status'[1] = "running")
    /\ (pc[1] = "pip_check" /\ PipAnswers) => pc'[1] \in {"pip_check", "pip_upgrade"}
    /\ (pc[1] = "pip_upgrade") => tmp'[1] = "none"

\* When the initial query succeeded, no bootstrap script was asked for.
C11_NoBootstrapWhenPipPresent ==
    /\ pc[1] = "pip_upgrade" => "installing_pip" \notin out[1]
    /\ "pip_already_installed" \in out[1]
          => /\ "installing_pip" \notin out[1]
             /\ out[1] \cap {"pip_installed", "pip_warning", "pip_installation_failed"} = {}
             /\ pc[1] \notin {"pip_download", "pip_run", "pip_verify"}

\* C11: inside install_pip of a single installer run the failures fatal to
\* the install are a failed download of the bootstrap script and a non-zero
\* exit of its execution; the best-effort upgrade and the final version
\* query never abort the install; and when the initial pip version query
\* succeeds the bootstrap script is never downloaded or executed.
C11_PipFatalFailures == []C11_NoBootstrapWhenPipPresent /\ [][C11_PipSteps]_vars

\* An install whose upgrade of the pip found did not succeed has completed.
C11_Witness ==
    /\ pc[1] = "done"
    /\ op[1] = "install"
    /\ status[1] = "ok"
    /\ "pip_already_installed" \in out[1]
    /\ "pip_upgraded" \notin out[1]
    /\ "installation_complete" \in out[1]

\* ---- C12
\* C12: on both paths of install_pip, pip found (and upgraded) and pip
\* bootstrapped, the final pip version query has been executed when
\* install_pip returns: one of its two reports (lines 400-403, "pip
\* installed" or the warning) has been printed when the PATH configuration
\* begins.
C12_FinalQueryOnBothPaths ==
    (pc[1] \in {"path", "path_append"} /\ "checking_pip" \in out[1])
        => out[1] \cap {"pip_installed", "pip_warning"} # {}

\* ---- C13
\* The host is none of those get_platform_info knows (lines 123-146).
HostUnsupported ==
    \/ system \notin {"darwin", "windows", "linux"}
    \/ machine \notin {"x86_64", "amd64", "aarch64", "arm64", "i386", "i686"}

\* The version asked for is not an available release.
VersionUnavailable == version[1] \notin AVAILABLE_VERSIONS

\* C13 as claimed: an install of a version that is not an available release
\* fails in URL/version resolution, before any network request: no download
\* has been started when the invocation is over.
C13_BadVersionStartsNoDownload ==
    (pc[1] = "done" /\ op[1] = "install" /\ VersionUnavailable)
        => "downloading" \notin out[1]

\* The steps of an install on an unsupported host or of an unavailable
\* version: none changes the install directory, the profiles or the registry,
\* none leaves temporary content; the unsupported host ends the invocation
\* at platform detection with no request issued; the unavailable version is
\* found by the request itself, which the download step issues and which
\* fails.
C13_ResolutionSteps ==
    /\ (op[1] = "install" /\ pc[1] \notin {"idle", "done"}
           /\ (HostUnsupported \/ VersionUnavailable))
          => /\ FsVars' = FsVars
             /\ tmp'[1] = "none"
             /\ got'[1] = "none"
    /\ (pc[1] = "install" /\ HostUnsupported /\ pc'[1] # pc[1])
          => /\ pc'[1] = "done"
             /\ ExitCode(status'[1]) # 0
             /\ "downloading" \notin out'[1]
    /\ (pc[1] = "download" /\ VersionUnavailable /\ pc'[1] # pc[1])
          => /\ pc'[1] = "done"
             /\ ExitCode(status'[1]) # 0
             /\ "downloading" \in out'[1]
             /\ "downloaded" \notin out'[1]

\* On an unsupported host no install ever starts a download, and neither
\* there nor for an unavailable version is an archive ever obtained or the
\* install directory touched.
C13_NothingObtained ==
    (op[1] = "install" /\ pc[1] # "idle")
        => /\ HostUnsupported
              => (out[1] \cap {"installing", "downloading"} = {} /\ ~dirExists)
           /\ (HostUnsupported \/ VersionUnavailable)
              => /\ tmp[1] = "none" /\ got[1] = "none"
                 /\ out[1] \cap {"downloaded", "removing_existing", "extracting"} = {}
                 /\ Names(dirFiles) = prev[1]

\* C13: an unsupported platform or architecture is detected before any
\* network request and any file-system mutation; the URL resolvers never
\* check the version, so a version that is not an available release is found
\* only by the download request itself, which is issued and fails, with no
\* temporary content left and the install directory, the profiles and the
\* registry unchanged.
C13_ErrorsBeforeMutation == []C13_NothingObtained /\ [][C13_ResolutionSteps]_vars

\* A forced reinstall of an unavailable version has failed in its download
\* request and the earlier installation is still there.
C13_Witness ==
    /\ pc[1] = "done"
    /\ op[1] = "install"
    /\ force[1]
    /\ VersionUnavailable
    /\ status[1] = "failed"
    /\ "downloading" \in out[1]
    /\ Runnable

\* ---- C14
\* The position of the k-th separator of a PATH value (0 before the value,
\* one past its end after the last separator).
SepPos(text, k) ==
    IF k = 0 THEN 0
    ELSE IF k > CountOf(text, PathSep) THEN Len(text) + 1
    ELSE CHOOSE i \in 1..Len(text) :
            text[i] = PathSep /\ CountOf(SubSeq(text, 1, i), PathSep) = k

\* The entries of a PATH value, in order; the empty value has none.
EntriesOf(text) ==
    IF text = <<>> THEN <<>>
    ELSE [k \in 1..(CountOf(text, PathSep) + 1) |->
             SubSeq(text, SepPos(text, k - 1) + 1, SepPos(text, k) - 1)]

\* A step of configure_path_windows in which the registry was accessible.
C14_PathWindowsSteps ==
    (/\ pc[1] = "path"
     /\ OsName = "windows"
     /\ pc'[1] # pc[1]
     /\ "manual_path_instructions" \notin out'[1])
        => LET old == IF regSet THEN EntriesOf(regPath) ELSE <<>>
               new == IF regSet' THEN EntriesOf(regPath') ELSE <<>>
               wanted == {InstallDirEntry, ScriptsDirEntry}
               missing == {e \in wanted : CountOf(old, e) = 0}
               added == Cardinality(missing)
           IN /\ \A e \in wanted :
                    CountOf(new, e) = CountOf(old, e) + (IF e \in missing THEN 1 ELSE 0)
              /\ Len(new) = Len(old) + added
              /\ \A i \in 1..added : new[i] \in missing
              /\ SubSeq(new, added + 1, Len(new)) = old
              /\ ("added_to_user_path" \in out'[1]) <=> (missing # {})
              /\ ("already_in_user_path" \in out'[1]) <=> (missing = {})
              /\ (missing = {}) => UNCHANGED <<regSet, regPath>>
              /\ (missing # {}) => regSet'

\* C14: for every current user PATH value (absent treated as empty), a run
\* of configure_path_windows that can access the registry yields a PATH in
\* which the install directory and its Scripts subdirectory are each present
\* as many times as before, plus one if it was missing; the added entries
\* precede all pre-existing entries, which keep their order; and the value
\* is written if and only if at least one of the two was missing.
C14_PathWindowsPrepends == [][C14_PathWindowsSteps]_vars

\* A first run has put both entries in front of the user's entry and a
\* second run has written nothing.
C14_Witness ==
    /\ pc[1] = "done"
    /\ "already_in_user_path" \in out[1]
    /\ regSet
    /\ regPath = ScriptsDirEntry \o <<PathSep>> \o InstallDirEntry
                    \o <<PathSep, "C:\\tools">>

\* ---- C15
\* The steps of an install up to the end of the download leave the install
\* directory and its contents alone; a download that fails ends the
\* invocation with exit code 1; the directory changes only once the archive
\* has been downloaded.
C15_DownloadSteps ==
    /\ (op[1] = "install" /\ pc[1] \in {"install", "download"})
          => UNCHANGED <<dirExists, dirFiles>>
    /\ (pc[1] = "download" /\ pc'[1] = "done")
          => /\ ExitCode(status'[1]) = 1
             /\ "downloaded" \notin out'[1]
    /\ (op[1] = "install" /\ pc[1] \notin {"idle", "done"}
           /\ <<dirExists, dirFiles>>' # <<dirExists, dirFiles>>)
          => "downloaded" \in out[1]

\* The existing directory is removed only by an invocation that has its
\* archive, and an install without it has the directory as it found it.
C15_RemovedOnlyAfterDownload ==
    op[1] = "install"
        => /\ "removing_existing" \in out[1]
                => ("downloaded" \in out[1] /\ got[1] # "none")
           /\ (pc[1] # "idle" /\ "downloaded" \notin out[1])
                => (Names(dirFiles) = prev[1] /\ (prev[1] # {} => dirExists))

\* C15: in install_unix and install_windows a pre-existing install directory
\* is removed only after the download has completed; if the download fails
\* during a --force reinstall, the install directory and all its contents
\* are unchanged and the invocation exits with code 1.
C15_DownloadBeforeRemoval == []C15_RemovedOnlyAfterDownload /\ [][C15_DownloadSteps]_vars

\* A forced reinstall of an available version has failed in its download and
\* the earlier installation still runs.
C15_Witness ==
    /\ pc[1] = "done"
    /\ op[1] = "install"
    /\ force[1]
    /\ version[1] \in AVAILABLE_VERSIONS
    /\ ExitCode(status[1]) = 1
    /\ "downloading" \in out[1]
    /\ "downloaded" \notin out[1]
    /\ prev[1] # {}
    /\ Runnable

\* ---- C16
\* An archive that extracts completely and whose interpreter runs once it
\* has been made executable.
SoundArchive(id) ==
    LET a == ArchiveOf(id)
    IN /\ a.readable = Len(a.members)
       /\ \E i \in 1..Len(a.members) :
             /\ a.members[i].name = <<"python", Sep>> \o PythonExe("linux")
             /\ a.members[i].kind \in {"exe_ok", "exe_noexec"}

\* The processes that have appended their block to a profile file.
Appenders == {p \in Procs : "added_to_profile" \in out[p]}

\* A profile file holds at most one marker per process that appended its
\* block, so the marker twice only when both did.
C16_DuplicateOnlyByRace ==
    \A f \in ProfileFiles :
        CountOf(profiles[f].lines, Marker) <= Cardinality(Appenders)

\* A removal is the removal of what the other process had extracted, and an
\* install whose own archive was sound fails its verification only when the
\* other process removed or extracted in the meantime.
C16_BrokenOnlyByRace ==
    \A p \in Procs :
        /\ "removing_existing" \in out[p]
              => \E q \in Procs \ {p} : "extracting" \in out[q]
        /\ (/\ pc[p] = "done"
            /\ status[p] = "failed"
            /\ "extraction_complete" \in out[p]
            /\ "python_installed" \notin out[p]
            /\ SoundArchive(got[p]))
              => \E q \in Procs \ {p} :
                    out[q] \cap {"removing_existing", "extracting"} # {}

\* C16: two forced installs that run at once are not coordinated.  Their
\* interleavings reach the state in which one process has removed the
\* install directory the other had extracted into, and the state in which
\* both PATH configurators passed the marker check before either appended,
\* so that the profile file holds the marker block twice; and these races
\* are the only way there: a profile never holds more marker blocks than
\* processes have appended, and a process whose own archive was sound fails
\* verification only when the other process removed or extracted meanwhile.
C16_RacesOfTwoInstalls == C16_DuplicateOnlyByRace /\ C16_BrokenOnlyByRace

\* Process 2 has removed the directory process 1 had extracted into, and
\* both processes have appended their block to the same profile file.
C16_Witness ==
    /\ "extraction_complete" \in out[1]
    /\ "removing_existing" \notin out[1]
    /\ "removing_existing" \in out[2]
    /\ Appenders = Procs
    /\ \E f \in ProfileFiles : CountOf(profiles[f].lines, Marker) = 2

====
